---------------------------- MODULE Spec2Model ----------------------------
(***************************************************************************)
(* Injectinator: the Injector (registry, resolver, parent chain), its      *)
(* three Provider strategies and the Global Injector, as a state machine.  *)
(*                                                                         *)
(* Objects live in stores indexed by allocation order: Injector i is       *)
(* parent[i]/deps[i], Provider p is providers[p], and an object built by   *)
(* `new` or returned by a factory is heap[n].  JavaScript values are the   *)
(* records [wrap, tag, id]: tag "obj" is a reference to heap[id], tag      *)
(* "prim" the number id, tag "undef" undefined, and wrap = n > 0 is an     *)
(* array of exactly one element holding the same value with wrap = n - 1.  *)
(***************************************************************************)
EXTENDS Integers, Sequences, FiniteSets, TLC

VARIABLES
    parent,          \* Injector.parent, per Injector; Null for a root
    deps,            \* Injector.dependencies, per Injector: token -> Provider
    providers,       \* every Provider object, with its private fields
    globalInjector,  \* Injector._globalInjector; Null while unset
    isReassigned,    \* Injector.isReassigned
    count,           \* per target: how often it was invoked (A.count++ of the tests)
    heap,            \* the objects built so far: what built them, with which arguments
    last,            \* the call made by the last step and what it returned or threw
    reads,           \* history: every Injector a read of GlobalInjector returned
    assigned,        \* history: every value an assignment of GlobalInjector stored
    pending,         \* the singleton gets whose constructable is running, innermost first
    properties       \* what the Inject decorators have defined on the decorated prototype

vars == <<parent, deps, providers, globalInjector, isReassigned, count, heap,
          last, reads, assigned, pending, properties>>

RECURSIVE resolve(_, _, _, _)
RECURSIVE get(_, _, _, _)
RECURSIVE apply(_, _, _, _)

---------------------------------------------------------------------------
(* Bounds of the model.                                                    *)

MaxInjectors == 2
MaxProviders == 2
MaxInvocations == 3
MaxTokens == 2
MaxDepth == 4

\* How many Injectors the scenarios of shadowing create: a root, a child
\* and a child of the child.
MaxShadow == 3

\* How many gets of singleton Providers may be in progress inside each other.
MaxNesting == 2

---------------------------------------------------------------------------
(* Values.                                                                 *)

Null == 0
Absent == "absent"

Undefined == [wrap |-> 0, tag |-> "undef", id |-> 0]
Prim(n) == [wrap |-> 0, tag |-> "prim", id |-> n]
Obj(n) == [wrap |-> 0, tag |-> "obj", id |-> n]

\* The array [v].
ArrayOf(v) == [v EXCEPT !.wrap = @ + 1]

\* JavaScript truthiness: undefined and 0 are falsy, objects and arrays truthy.
Truthy(v) == v.wrap > 0 \/ v.tag = "obj" \/ (v.tag = "prim" /\ v.id # 0)

---------------------------------------------------------------------------
(* The constructables and factory functions the callers use, with what the *)
(* manifest collaborator (Reflect.getMetadata 'design:paramtypes') and the *)
(* decorators record for each.                                             *)
(*   A  @Injectable() @Singleton class, constructor()                      *)
(*   B  decorated class, constructor(a: A)                                 *)
(*   U  undecorated class: no manifest                                     *)
(*   F  arrow factory with an empty manifest, returns a new object         *)
(*   Z  arrow factory with an empty manifest, returns the number 0         *)
(*   R  class whose manifest is ["K"]: constructor(num)                     *)
(*   P  class whose manifest is ["K", A]: constructor(num, a)               *)
(*   G  `function` factory with an empty manifest, returns the number 0:    *)
(*      unlike an arrow function it has a prototype                         *)
(*   X  class, constructor(y: Y)                                            *)
(*   Y  class, constructor(x: X)                                            *)
(*   H  arrow factory whose manifest is ["K"], returns a new object         *)

Targets == {"A", "B", "U", "F", "Z", "R", "P", "G", "X", "Y", "H"}

HasPrototype(t) == t \in {"A", "B", "U", "R", "P", "G", "X", "Y"}

\* `!args || !args.length`: an empty manifest counts as none.
HasManifestNonEmpty(t) == t \in {"B", "R", "P", "X", "Y", "H"}

HasManifest(t) == t \in {"A", "B", "F", "Z", "R", "P", "G", "X", "Y", "H"}

Manifest(t) ==
    CASE t = "B" -> <<"A">>
      [] t = "R" -> <<"K">>
      [] t = "P" -> <<"K", "A">>
      [] t = "X" -> <<"Y">>
      [] t = "Y" -> <<"X">>
      [] t = "H" -> <<"K">>
      [] OTHER -> <<>>

SingletonMeta(t) == t = "A"

\* What the body of a factory function returns: a new object (Undefined
\* stands for "allocate") or a primitive.
Returns(t) == IF t \in {"Z", "G"} THEN Prim(0) ELSE Undefined

Tokens == {"K", "A"}

\* JavaScript truthiness of a token: undefined and the empty string are falsy.
TruthyToken(k) == k \notin {Absent, ""}

---------------------------------------------------------------------------
(* Outcomes of a call: the memory it leaves (Provider fields, invocation   *)
(* counts, heap), and either the returned values or the Error thrown.      *)

Mem(prov, cnt, hp) == [prov |-> prov, count |-> cnt, heap |-> hp]

Ok(m, vals) == [m |-> m, ok |-> TRUE, val |-> vals, err |-> "none", tok |-> "none"]

Fail(m, err, tok) == [m |-> m, ok |-> FALSE, val |-> <<>>, err |-> err, tok |-> tok]

---------------------------------------------------------------------------
(* Providers.                                                              *)

\* new ClassProvider(clazz, isSingleton, token?)
ClassProvider(clazz, isSingleton, token) ==
    [kind |-> "class", target |-> clazz, isSingleton |-> isSingleton,
     token |-> IF TruthyToken(token) THEN token ELSE clazz,
     instance |-> Undefined, obj |-> Undefined]

\* new ObjectProvider(obj, token)
ObjectProvider(obj, token) ==
    [kind |-> "object", target |-> Absent, isSingleton |-> FALSE,
     token |-> token, instance |-> Undefined, obj |-> obj]

\* new FactoryProvider(factory, isSingleton, token)
FactoryProvider(factory, isSingleton, token) ==
    [kind |-> "factory", target |-> factory, isSingleton |-> isSingleton,
     token |-> token, instance |-> Undefined, obj |-> Undefined]

\* `target(...args)` whatever the target is: what its body returns is the
\* result.
InvokeCall(m, t, args) ==
    LET cnt == [m.count EXCEPT ![t] = @ + 1]
        fresh == Returns(t) = Undefined
        hp == IF fresh
              THEN Append(m.heap, [target |-> t, args |-> args, mode |-> "call"])
              ELSE m.heap
        v == IF fresh THEN Obj(Len(hp)) ELSE Returns(t)
    IN  Ok(Mem(m.prov, cnt, hp), <<v>>)

\* `new target(...args)` or `target(...args)`: the target runs once; a
\* constructor, and a factory that builds an object, allocate heap[n].
Invoke(m, t, args) ==
    LET cnt == [m.count EXCEPT ![t] = @ + 1]
        fresh == HasPrototype(t) \/ Returns(t) = Undefined
        mode == IF HasPrototype(t) THEN "new" ELSE "call"
        hp == IF fresh
              THEN Append(m.heap, [target |-> t, args |-> args, mode |-> mode])
              ELSE m.heap
        v == IF fresh THEN Obj(Len(hp)) ELSE Returns(t)
    IN  Ok(Mem(m.prov, cnt, hp), <<v>>)

\* apply without the `if (!args) throw`: a target without manifest is
\* invoked without arguments.
applyUnchecked(m, i, t, fuel) ==
    IF fuel = 0 THEN Fail(m, "StackExhausted", t)
    ELSE LET r == resolve(m, i, Manifest(t), fuel - 1)
         IN  IF r.ok THEN Invoke(r.m, t, r.val) ELSE r

\* The sequence s backwards.
Reverse(s) == [j \in 1..Len(s) |-> s[Len(s) + 1 - j]]

\* apply handing the injections to the target last first.
applyReversed(m, i, t, fuel) ==
    IF fuel = 0 THEN Fail(m, "StackExhausted", t)
    ELSE IF ~HasManifest(t) THEN Fail(m, "ManifestUnavailable", t)
    ELSE LET r == resolve(m, i, Manifest(t), fuel - 1)
         IN  IF r.ok THEN Invoke(r.m, t, Reverse(r.val)) ELSE r

\* apply going through one more nested call before it resolves the
\* manifest.
applyDeep(m, i, t, fuel) ==
    IF fuel = 0 THEN Fail(m, "StackExhausted", t)
    ELSE IF ~HasManifest(t) THEN Fail(m, "ManifestUnavailable", t)
    ELSE LET r == resolve(m, i, Manifest(t), IF fuel > 1 THEN fuel - 2 ELSE 0)
         IN  IF r.ok THEN Invoke(r.m, t, r.val) ELSE r

\* Injector.apply(fnOrConstructor) on Injector i.  fuel is the call stack
\* left: running out of it is the RangeError of an exhausted stack.
apply(m, i, t, fuel) ==
    IF fuel = 0 THEN Fail(m, "StackExhausted", t)
    ELSE IF ~HasManifest(t) THEN Fail(m, "ManifestUnavailable", t)
    ELSE LET r == resolve(m, i, Manifest(t), fuel - 1)
         IN  IF r.ok THEN Invoke(r.m, t, r.val) ELSE r

\* The singleton branch turning the Provider into a Constant Provider of
\* the value it has produced.
SingletonGetPromote(m, p, i, fuel) ==
    LET P == m.prov[p]
    IN  IF P.kind # "object"
        THEN LET r == apply(m, i, P.target, fuel)
             IN  IF r.ok
                 THEN Ok([r.m EXCEPT !.prov[p] = ObjectProvider(r.val[1], P.token)],
                         r.val)
                 ELSE r
        ELSE Ok(m, <<P.obj>>)

\* The singleton branch storing a reference to the object under
\* construction before the constructable runs.
SingletonGetEarly(m, p, i, fuel) ==
    LET P == m.prov[p]
        early == [m EXCEPT !.prov[p].instance = Obj(Len(m.heap) + 1)]
    IN  IF ~Truthy(P.instance)
        THEN LET r == apply(early, i, P.target, fuel)
             IN  IF r.ok
                 THEN Ok([r.m EXCEPT !.prov[p].instance = r.val[1]], r.val)
                 ELSE r
        ELSE Ok(m, <<P.instance>>)

\* The singleton branch remembering a failed construction: the cache is
\* filled with a marker when apply throws.
SingletonGetSticky(m, p, i, fuel) ==
    LET P == m.prov[p]
    IN  IF ~Truthy(P.instance)
        THEN LET r == apply(m, i, P.target, fuel)
             IN  IF r.ok
                 THEN Ok([r.m EXCEPT !.prov[p].instance = r.val[1]], r.val)
                 ELSE [r EXCEPT !.m.prov[p].instance = Prim(1)]
        ELSE Ok(m, <<P.instance>>)

\* ClassProvider.get / FactoryProvider.get, singleton branch: the cache
\* is tested for truthiness.
SingletonGet(m, p, i, fuel) ==
    LET P == m.prov[p]
    IN  IF ~Truthy(P.instance)
        THEN LET r == apply(m, i, P.target, fuel)
             IN  IF r.ok
                 THEN Ok([r.m EXCEPT !.prov[p].instance = r.val[1]], r.val)
                 ELSE r
        ELSE Ok(m, <<P.instance>>)

\* get with the singleton branch taken whatever isSingleton says.
getCached(m, p, i, fuel) ==
    LET P == m.prov[p]
    IN  IF P.kind = "object" THEN Ok(m, <<P.obj>>)
        ELSE SingletonGet(m, p, i, fuel)

\* get with the constant handed to apply like a class or a function.
getConstructed(m, p, i, fuel) ==
    LET P == m.prov[p]
    IN  IF P.isSingleton THEN SingletonGet(m, p, i, fuel)
        ELSE apply(m, i, IF P.kind = "object" THEN "Z" ELSE P.target, fuel)

\* Provider.get(injector) of Provider p with Injector i.
get(m, p, i, fuel) ==
    LET P == m.prov[p]
    IN  IF P.kind = "object" THEN Ok(m, <<P.obj>>)
        ELSE IF P.isSingleton THEN SingletonGet(m, p, i, fuel)
        ELSE apply(m, i, P.target, fuel)

\* resolveToken with the root case returning undefined instead of throwing.
resolveTokenLenient(m, i, token, fuel) ==
    IF token \in DOMAIN deps[i] THEN get(m, deps[i][token], i, fuel)
    ELSE IF parent[i] # Null
    THEN LET r == resolve(m, parent[i], <<token>>, fuel)
         IN  IF r.ok THEN Ok(r.m, <<ArrayOf(r.val[1])>>) ELSE r
    ELSE Ok(m, <<Undefined>>)

\* resolveToken handing the asking Injector to a Provider its parent binds.
resolveTokenInherit(m, i, token, fuel) ==
    IF token \in DOMAIN deps[i] THEN get(m, deps[i][token], i, fuel)
    ELSE IF parent[i] # Null
    THEN LET r == IF token \in DOMAIN deps[parent[i]]
                  THEN get(m, deps[parent[i]][token], i, fuel)
                  ELSE resolve(m, parent[i], <<token>>, fuel)
         IN  IF r.ok THEN Ok(r.m, <<ArrayOf(r.val[1])>>) ELSE r
    ELSE Fail(m, "UnresolvedToken", token)

\* resolveToken asking the parent first and its own registry last.
resolveTokenParentFirst(m, i, token, fuel) ==
    LET r == IF parent[i] # Null THEN resolve(m, parent[i], <<token>>, fuel)
             ELSE Fail(m, "UnresolvedToken", token)
    IN  IF r.ok THEN Ok(r.m, <<ArrayOf(r.val[1])>>)
        ELSE IF token \in DOMAIN deps[i] THEN get(m, deps[i][token], i, fuel)
        ELSE r

\* The callback of tokens.map in Injector.resolve: one token on Injector i.
\* A delegated token yields what parent.resolve(token) returns, an array.
resolveToken(m, i, token, fuel) ==
    IF token \in DOMAIN deps[i] THEN get(m, deps[i][token], i, fuel)
    ELSE IF parent[i] # Null
    THEN LET r == resolve(m, parent[i], <<token>>, fuel)
         IN  IF r.ok THEN Ok(r.m, <<ArrayOf(r.val[1])>>) ELSE r
    ELSE Fail(m, "UnresolvedToken", token)

\* resolve undoing what the earlier tokens did when a later token fails.
resolveRollback(m, i, tokens, fuel) ==
    IF tokens = <<>> THEN Ok(m, <<>>)
    ELSE LET h == resolveToken(m, i, Head(tokens), fuel)
         IN  IF ~h.ok THEN h
             ELSE LET t == resolve(h.m, i, Tail(tokens), fuel)
                  IN  IF t.ok THEN Ok(t.m, h.val \o t.val) ELSE [t EXCEPT !.m = m]

\* Injector.resolve(...tokens) on Injector i: tokens.map, left to right; an
\* Error thrown by one token ends the call.
resolve(m, i, tokens, fuel) ==
    IF tokens = <<>> THEN Ok(m, <<>>)
    ELSE LET h == resolveToken(m, i, Head(tokens), fuel)
         IN  IF ~h.ok THEN h
             ELSE LET t == resolve(h.m, i, Tail(tokens), fuel)
                  IN  IF t.ok THEN Ok(t.m, h.val \o t.val) ELSE t

\* The memory of the current state.
Cur == Mem(providers, count, heap)

---------------------------------------------------------------------------
(* What the callers pass in.                                               *)

\* Providers the callers construct themselves.
ProviderInputs ==
    {ClassProvider("A", TRUE, Absent), ClassProvider("A", FALSE, Absent),
     ClassProvider("B", FALSE, Absent), ClassProvider("U", TRUE, "K"),
     FactoryProvider("F", TRUE, "K"), FactoryProvider("Z", TRUE, "K"),
     ObjectProvider(Prim(6), "K")}

\* An argument of bind: null, a Provider object, a ProviderOptions record or
\* a bare constructable.  self is the identity of the argument itself; a field
\* the object does not have reads as Absent (undefined).
Dto(form, self, p, key, provide, provideFactory, provideConstant, singleton) ==
    [form |-> form, self |-> self, p |-> p, key |-> key, provide |-> provide,
     provideFactory |-> provideFactory, provideConstant |-> provideConstant,
     singleton |-> singleton]

NullDto == Dto("null", Absent, 0, Absent, Absent, Absent, Undefined, Absent)

\* bind() and bind(undefined).
UndefinedDto == Dto("undefined", Absent, 0, Absent, Absent, Absent, Undefined, Absent)

ProviderDto(p) == Dto("provider", Absent, p, Absent, Absent, Absent, Undefined, Absent)

TypeDto(t) == Dto("type", t, 0, Absent, Absent, Absent, Undefined, Absent)

OptionsInputs ==
    {Dto("options", "o1", 0, "K", Absent, Absent, Prim(6), Absent),
     Dto("options", "o2", 0, "K", Absent, Absent, Prim(6), "true"),
     Dto("options", "o3", 0, "K", Absent, Absent, Prim(0), Absent),
     Dto("options", "o4", 0, "K", "A", Absent, Undefined, "true"),
     Dto("options", "o5", 0, "K", Absent, "Z", Undefined, "true"),
     Dto("options", "o6", 0, "K", "A", "Z", Prim(6), Absent),
     Dto("options", "o7", 0, "K", Absent, "F", Prim(6), Absent),
     Dto("options", "o8", 0, "", "A", Absent, Undefined, Absent),
     Dto("options", "o9", 0, "K", "U", Absent, Undefined, Absent),
     Dto("options", "o10", 0, "K", Absent, "Z", Undefined, Absent)}

BindInputs ==
    {NullDto, UndefinedDto} \cup {ProviderDto(p) : p \in 1..Len(providers)}
        \cup {TypeDto(t) : t \in {"A", "B"}} \cup OptionsInputs

\* The arguments of bind in the registry scenarios: null, a Provider, the
\* constant specifications and a bare constructable.
RegistryInputs ==
    {NullDto, TypeDto("A")} \cup {ProviderDto(p) : p \in 1..Len(providers)}
        \cup {d \in OptionsInputs : d.self \in {"o1", "o2", "o3"}}

\* The arguments of bind in the resolution scenarios: a constant, a
\* specification that ends as a class without manifest, a bare constructable.
ResolveInputs ==
    {d \in OptionsInputs : d.self \in {"o1", "o3"}} \cup {TypeDto("A")}

\* The arguments of bind in the singleton scenarios.
SingletonInputs ==
    {ProviderDto(p) : p \in 1..Len(providers)} \cup {TypeDto("A"), TypeDto("B")}

\* The arguments of bind in the scenarios without singletons.
FreshInputs ==
    {TypeDto("A")} \cup {d \in OptionsInputs : d.self \in {"o7", "o10"}}

\* The arguments of bind in the construction scenarios: a bare constructable,
\* a constant, a class without manifest.
ApplyInputs ==
    {TypeDto("A")} \cup {d \in OptionsInputs : d.self \in {"o1", "o9"}}

\* The arguments of bind in the scenarios that only register: one of each
\* form.
RegisterInputs ==
    {NullDto, UndefinedDto, TypeDto("A")} \cup {ProviderDto(p) : p \in 1..Len(providers)}
        \cup {d \in OptionsInputs : d.self \in {"o1", "o4", "o5"}}

\* The arguments of bind in the scenarios of bare constructables.
BareInputs == {TypeDto("A"), TypeDto("B")}

\* The arguments of bind in the scenarios of caches along a chain.
FrameInputs ==
    {TypeDto("A")} \cup {d \in OptionsInputs : d.self \in {"o4"}}

\* The arguments of bind in the scenarios of gets in progress: a singleton
\* class under "K" and a singleton factory under the class A as token.
ReentryInputs ==
    {d \in OptionsInputs : d.self = "o4"}
        \cup {Dto("options", "o11", 0, "A", Absent, "F", Undefined, "true")}

\* The arguments of bind in the scenarios of cyclic manifests: the classes
\* X and Y, bare and as singletons under themselves as token.
CycleInputs ==
    {TypeDto("X"), TypeDto("Y"),
     Dto("options", "o12", 0, "X", "X", Absent, Undefined, "true"),
     Dto("options", "o13", 0, "Y", "Y", Absent, Undefined, "true")}

\* The arguments of bind in the scenarios of acyclic manifests: A, B that
\* requires A, and "K" provided by the class U without manifest.
AcyclicInputs ==
    {TypeDto("A"), TypeDto("B")} \cup {d \in OptionsInputs : d.self = "o9"}

\* The arguments of bind in the scenarios of a dependency bound at several
\* levels: the class R that requires "K", "K" as a constant, "K" as a
\* singleton class.
OwnerInputs ==
    {TypeDto("R")} \cup {d \in OptionsInputs : d.self \in {"o1", "o4"}}

\* The arguments of bind in the scenarios of shadowing: "K" as a constant
\* and "K" as a singleton class.
ShadowInputs == {d \in OptionsInputs : d.self \in {"o1", "o4"}}

\* The arguments of bind in the scenarios of failed constructions: the
\* class R and the factory H, both requiring "K", as singletons; "K" as a
\* constant and as a singleton of the class U without manifest.
RetryInputs ==
    {Dto("options", "o14", 0, "R", "R", Absent, Undefined, "true"),
     Dto("options", "o15", 0, "H", Absent, "H", Undefined, "true"),
     Dto("options", "o16", 0, "K", "U", Absent, Undefined, "true")}
        \cup {d \in OptionsInputs : d.self = "o1"}

\* The arguments of bind in the scenarios of a resolve of several tokens:
\* a singleton class under "K" and the bare class A.
PartialInputs == {TypeDto("A")} \cup {d \in OptionsInputs : d.self = "o4"}

\* The arguments of bind in the scenarios of decorated properties: the
\* bare class A, and a constant under the class A as token.
DecorationInputs ==
    {TypeDto("A"), Dto("options", "o17", 0, "A", Absent, Absent, Prim(6), Absent)}

\* The one binding the Injector tree is probed with: a constant under "K".
TreeInputs == {d \in OptionsInputs : d.self = "o1"}

\* The arguments of bind in the scenarios of its forms: null, undefined, a
\* Provider, every specification record, the bare constructables.
FormInputs ==
    {NullDto, UndefinedDto} \cup {ProviderDto(p) : p \in 1..Len(providers)}
        \cup {TypeDto("A"), TypeDto("B")} \cup OptionsInputs

\* The argument lists of resolve: up to MaxTokens tokens.
TokenLists == UNION {[1..n -> Tokens] : n \in 0..MaxTokens}

---------------------------------------------------------------------------
(* The record of the last call.                                            *)

Call(op, inj, toks, target, p, r, warned) ==
    [op |-> op, inj |-> inj, toks |-> toks, target |-> target, p |-> p,
     ok |-> r.ok, val |-> r.val, err |-> r.err, tok |-> r.tok, warned |-> warned]

\* No call is in progress and no result is waiting to be looked at.
Idle == Call("none", 0, <<>>, Absent, 0, Ok(Mem(<<>>, <<>>, <<>>), <<>>), FALSE)

Returned(v) == Ok(Cur, <<v>>)

Threw(err) == Fail(Cur, err, "none")

Invocations ==
    count["A"] + count["B"] + count["U"] + count["F"] + count["Z"] + count["R"]
        + count["P"] + count["G"] + count["X"] + count["Y"] + count["H"]

---------------------------------------------------------------------------
(* The Global Injector.                                                    *)

\* The getter without `this.isReassigned = true`.
GlobalInjectorGetUnlocked ==
    IF globalInjector = Null
    THEN [parent |-> Append(parent, Null), deps |-> Append(deps, <<>>),
          global |-> Len(parent) + 1, flag |-> isReassigned]
    ELSE [parent |-> parent, deps |-> deps, global |-> globalInjector,
          flag |-> isReassigned]

\* The getter creating the Global Injector under the newest Injector.
GlobalInjectorGetChained ==
    IF globalInjector = Null
    THEN [parent |-> Append(parent, IF Len(parent) > 0 THEN Len(parent) ELSE Null),
          deps |-> Append(deps, <<>>), global |-> Len(parent) + 1, flag |-> TRUE]
    ELSE [parent |-> parent, deps |-> deps, global |-> globalInjector,
          flag |-> isReassigned]

\* static get GlobalInjector(): what the getter leaves and returns.
GlobalInjectorGet ==
    IF globalInjector = Null
    THEN [parent |-> Append(parent, Null), deps |-> Append(deps, <<>>),
          global |-> Len(parent) + 1, flag |-> TRUE]
    ELSE [parent |-> parent, deps |-> deps, global |-> globalInjector,
          flag |-> isReassigned]

\* A read of Injector.GlobalInjector.
ReadGlobal ==
    /\ last = Idle
    /\ globalInjector # Null \/ Len(parent) < MaxInjectors
    /\ LET g == GlobalInjectorGet
       IN  /\ parent' = g.parent
           /\ deps' = g.deps
           /\ globalInjector' = g.global
           /\ isReassigned' = g.flag
           /\ reads' = reads \cup {g.global}
           /\ last' = Call("GlobalInjectorGet", g.global, <<>>, Absent, 0,
                           Returned(Prim(g.global)), FALSE)
    /\ UNCHANGED <<providers, count, heap, assigned, pending, properties>>

\* The setter without the isReassigned test.
GlobalInjectorSetUnchecked(val) ==
    [throws |-> FALSE, global |-> val, flag |-> TRUE]

\* static set GlobalInjector(val): the outcome of the assignment.
GlobalInjectorSet(val) ==
    IF isReassigned
    THEN [throws |-> TRUE, global |-> globalInjector, flag |-> isReassigned]
    ELSE [throws |-> FALSE, global |-> val, flag |-> TRUE]

\* Injector.GlobalInjector = val, val an Injector or null.
AssignGlobal(val) ==
    LET s == GlobalInjectorSet(val)
    IN  /\ last = Idle
        /\ globalInjector' = s.global
        /\ isReassigned' = s.flag
        /\ assigned' = IF s.throws THEN assigned ELSE assigned \cup {val}
        /\ last' = Call("GlobalInjectorSet", val, <<>>, Absent, 0,
                        IF s.throws THEN Threw("GlobalInjectorAlreadySet")
                        ELSE Returned(Undefined), FALSE)
        /\ UNCHANGED <<parent, deps, providers, count, heap, reads, pending, properties>>

---------------------------------------------------------------------------
(* Injector construction.                                                  *)

Omitted == -1

\* The constructor taking no parent for a missing argument.
ConstructRoot(arg, op) ==
    /\ last = Idle
    /\ Len(parent) < MaxInjectors
    /\ parent' = Append(parent, IF arg = Omitted THEN Null ELSE arg)
    /\ deps' = Append(deps, <<>>)
    /\ last' = Call(op, Len(parent) + 1, <<>>, Absent, arg,
                    Returned(Prim(Len(parent) + 1)), FALSE)
    /\ UNCHANGED <<providers, globalInjector, isReassigned, count, heap, reads,
                   assigned, pending, properties>>

\* The constructor taking the new Injector itself as its parent.
ConstructSelf(arg, op) ==
    /\ last = Idle
    /\ Len(parent) < MaxInjectors
    /\ parent' = Append(parent, Len(parent) + 1)
    /\ deps' = Append(deps, <<>>)
    /\ last' = Call(op, Len(parent) + 1, <<>>, Absent, arg,
                    Returned(Prim(Len(parent) + 1)), FALSE)
    /\ UNCHANGED <<providers, globalInjector, isReassigned, count, heap, reads,
                   assigned, pending, properties>>

\* The constructor reading the field _globalInjector instead of the
\* getter: nothing is created and nothing is locked.
ConstructPeek(arg, op) ==
    /\ last = Idle
    /\ Len(parent) < MaxInjectors
    /\ parent' = Append(parent, IF arg = Omitted THEN globalInjector ELSE arg)
    /\ deps' = Append(deps, <<>>)
    /\ last' = Call(op, Len(parent) + 1, <<>>, Absent, arg,
                    Returned(Prim(Len(parent) + 1)), FALSE)
    /\ UNCHANGED <<providers, globalInjector, isReassigned, count, heap, reads,
                   assigned, pending, properties>>

\* new Injector(parent?) while fewer than max Injectors exist: without an argument the parent is read from
\* Injector.GlobalInjector.
ConstructWithin(arg, op, max) ==
    LET g == IF arg = Omitted THEN GlobalInjectorGet
             ELSE [parent |-> parent, deps |-> deps, global |-> globalInjector,
                   flag |-> isReassigned]
        par == IF arg = Omitted THEN g.global ELSE arg
    IN  /\ last = Idle
        /\ Len(g.parent) < max
        /\ parent' = Append(g.parent, par)
        /\ deps' = Append(g.deps, <<>>)
        /\ globalInjector' = g.global
        /\ isReassigned' = g.flag
        /\ reads' = IF arg = Omitted THEN reads \cup {g.global} ELSE reads
        /\ last' = Call(op, Len(g.parent) + 1, <<>>, Absent, arg,
                        Returned(Prim(Len(g.parent) + 1)), FALSE)
        /\ UNCHANGED <<providers, count, heap, assigned, pending, properties>>

\* new Injector(parent?) in the scenarios of up to MaxInjectors Injectors.
Construct(arg, op) == ConstructWithin(arg, op, MaxInjectors)

\* spawn() leaving the parent to the constructor's default.
spawnDefault(i) == Construct(Omitted, "spawn")

NewInjector(arg) == Construct(arg, "new Injector")

\* Injector.spawn() on Injector i.
spawn(i) == Construct(i, "spawn")

---------------------------------------------------------------------------
(* Registration.                                                           *)

\* new XProvider(...) by a caller.
NewProvider(P) ==
    /\ last = Idle
    /\ Len(providers) < MaxProviders
    /\ providers' = Append(providers, P)
    /\ last' = Call("new Provider", 0, <<>>, Absent, Len(providers) + 1,
                    Returned(Undefined), FALSE)
    /\ UNCHANGED <<parent, deps, globalInjector, isReassigned, count, heap,
                   reads, assigned, pending, properties>>

\* bind building the Provider with its value already produced.
ProviderOfEager(dto) ==
    [ClassProvider(dto.self, FALSE, Absent) EXCEPT !.instance = Obj(0)]

\* The branches of bind with a bare constructable bound as a singleton.
ProviderOfShared(dto) ==
    IF dto.provide # Absent
    THEN ClassProvider(dto.provide, dto.singleton = "true", dto.key)
    ELSE IF dto.provideFactory # Absent
    THEN FactoryProvider(dto.provideFactory, dto.singleton = "true", dto.key)
    ELSE IF Truthy(dto.provideConstant)
    THEN ObjectProvider(dto.provideConstant, dto.key)
    ELSE ClassProvider(dto.self, TRUE, Absent)

\* The branches of Injector.bind that build a Provider from its argument.
ProviderOf(dto) ==
    IF dto.provide # Absent
    THEN ClassProvider(dto.provide, dto.singleton = "true", dto.key)
    ELSE IF dto.provideFactory # Absent
    THEN FactoryProvider(dto.provideFactory, dto.singleton = "true", dto.key)
    ELSE IF Truthy(dto.provideConstant)
    THEN ObjectProvider(dto.provideConstant, dto.key)
    ELSE ClassProvider(dto.self, FALSE, Absent)

\* `dto === null`: undefined passes.
IsNullStrict(dto) == dto.form = "null"

\* `dto == null`: null and undefined.
IsNull(dto) == dto.form \in {"null", "undefined"}

\* _bind without the double-bind test: the later Provider replaces the first.
_bindOverwrite(d, token, p) ==
    [deps |-> [k \in DOMAIN d \cup {token} |-> IF k = token THEN p ELSE d[k]],
     warned |-> FALSE]

\* Injector._bind: the registry of the Injector after binding Provider p
\* under token, and whether the double-bind warning was written.
_bind(d, token, p) ==
    IF token \in DOMAIN d
    THEN [deps |-> d, warned |-> TRUE]
    ELSE [deps |-> (token :> p) @@ d, warned |-> FALSE]

\* Injector.bind(dto) on Injector i.
bind(i, dto) ==
    IF IsNull(dto)
    THEN /\ last = Idle
         /\ last' = Call("bind", i, <<>>, Absent, 0, Threw("InvalidProvider"), FALSE)
         /\ UNCHANGED <<parent, deps, providers, globalInjector, isReassigned,
                        count, heap, reads, assigned, pending, properties>>
    ELSE LET isNew == dto.form # "provider"
             P == IF isNew THEN ProviderOf(dto) ELSE providers[dto.p]
             p == IF isNew THEN Len(providers) + 1 ELSE dto.p
             b == _bind(deps[i], P.token, p)
         IN  /\ last = Idle
             /\ (isNew /\ ~b.warned) => Len(providers) < MaxProviders
             /\ deps' = [deps EXCEPT ![i] = b.deps]
             /\ providers' = IF isNew /\ ~b.warned THEN Append(providers, P)
                             ELSE providers
             /\ last' = Call("bind", i, <<P.token>>, dto.self, p, Returned(Prim(i)),
                             b.warned)
             /\ UNCHANGED <<parent, globalInjector, isReassigned, count, heap,
                            reads, assigned, pending, properties>>

---------------------------------------------------------------------------
(* Resolution.                                                             *)

Commit(r) ==
    /\ providers' = r.m.prov
    /\ count' = r.m.count
    /\ heap' = r.m.heap
    /\ UNCHANGED <<parent, deps, globalInjector, isReassigned, reads, assigned,
            pending, properties>>

\* injector.resolve(...tokens) by a caller.
ResolveCall(i, tokens) ==
    LET r == resolve(Cur, i, tokens, MaxDepth)
    IN  /\ last = Idle
        /\ Invocations < MaxInvocations
        /\ last' = Call("resolve", i, tokens, Absent, 0, r, FALSE)
        /\ Commit(r)

\* injector.apply(target) by a caller.
ApplyCall(i, t) ==
    LET r == apply(Cur, i, t, MaxDepth)
    IN  /\ last = Idle
        /\ Invocations < MaxInvocations
        /\ last' = Call("apply", i, <<>>, t, 0, r, FALSE)
        /\ Commit(r)

\* provider.get(injector) by a caller.
GetCall(p, i) ==
    LET r == get(Cur, p, i, MaxDepth)
    IN  /\ last = Idle
        /\ Invocations < MaxInvocations
        /\ last' = Call("get", i, <<>>, Absent, p, r, FALSE)
        /\ Commit(r)

\* What a get in progress remembers: the Provider, the Injector it was
\* given and the arguments resolve has returned for the constructable.
Frame(p, i, args) == [p |-> p, inj |-> i, args |-> args]

\* The first half of the singleton branch of get, up to the point where the
\* constructable starts to run: the cache is read; a truthy cache is
\* returned; otherwise apply reads the manifest and resolves it, and the
\* constructable is entered.  The call comes from a caller, or from the
\* body of a constructable that is running.
GetBegin(p, i) ==
    LET P == providers[p]
        r == IF ~HasManifest(P.target) THEN Fail(Cur, "ManifestUnavailable", P.target)
             ELSE resolve(Cur, i, Manifest(P.target), MaxDepth - 1)
    IN  /\ P.kind # "object"
        /\ P.isSingleton
        /\ last = Idle \/ pending # <<>>
        /\ IF Truthy(P.instance)
           THEN /\ last' = Call("get", i, <<>>, Absent, p, Returned(P.instance), FALSE)
                /\ UNCHANGED <<providers, count, heap, pending>>
           ELSE /\ Len(pending) < MaxNesting
                /\ Invocations + Len(pending) < MaxInvocations
                /\ providers' = r.m.prov
                /\ count' = r.m.count
                /\ heap' = r.m.heap
                /\ pending' = IF r.ok THEN <<Frame(p, i, r.val)>> \o pending ELSE pending
                /\ last' = Call(IF r.ok THEN "get:enter" ELSE "get", i, <<>>, Absent, p,
                                IF r.ok THEN Ok(r.m, <<>>) ELSE r, FALSE)
        /\ UNCHANGED <<parent, deps, globalInjector, isReassigned, reads, assigned, properties>>

\* The second half with the cache read once more before the constructable
\* runs: a get that finds the cache filled by now returns what it holds.
GetFinishRecheck ==
    /\ pending # <<>>
    /\ LET f == Head(pending)
           P == providers[f.p]
           r == IF Truthy(P.instance) THEN Ok(Cur, <<P.instance>>)
                ELSE Invoke(Cur, P.target, f.args)
           m == [r.m EXCEPT !.prov[f.p].instance = r.val[1]]
       IN  /\ providers' = m.prov
           /\ count' = m.count
           /\ heap' = m.heap
           /\ pending' = Tail(pending)
           /\ last' = Call("get", f.inj, <<>>, Absent, f.p, Ok(m, r.val), FALSE)
    /\ UNCHANGED <<parent, deps, globalInjector, isReassigned, reads, assigned, properties>>

\* The second half of the singleton branch of the innermost get in
\* progress: the constructable returns, `this.instance = ...` stores what it
\* built and get returns it.
GetFinish ==
    /\ pending # <<>>
    /\ LET f == Head(pending)
           r == Invoke(Cur, providers[f.p].target, f.args)
           m == [r.m EXCEPT !.prov[f.p].instance = r.val[1]]
       IN  /\ providers' = m.prov
           /\ count' = m.count
           /\ heap' = m.heap
           /\ pending' = Tail(pending)
           /\ last' = Call("get", f.inj, <<>>, Absent, f.p, Ok(m, r.val), FALSE)
    /\ UNCHANGED <<parent, deps, globalInjector, isReassigned, reads, assigned, properties>>

---------------------------------------------------------------------------
(* The Inject decorator on a property.                                     *)

\* The decorated properties of the class the scenarios define: dep is
\* declared with the class A as its type, num carries no design:type.
PropertyKeys == {"dep", "num"}

\* Reflect.getMetadata('design:type', target, key).
DesignType(key) == IF key = "dep" THEN "A" ELSE Absent

\* The argument of Inject: nothing, a token, an Injector, or a record of
\* options with a token, an Injector or both.
InjectArg(form, token, providedIn) ==
    [form |-> form, token |-> token, providedIn |-> providedIn]

\* Inject(arg): the Injector and the token the decorator will use.  The
\* Global Injector is read where no Injector is given.
Inject(arg) ==
    LET given == arg.form = "injector" \/ (arg.form = "options" /\ arg.providedIn # Null)
        g == IF given
             THEN [parent |-> parent, deps |-> deps, global |-> globalInjector,
                   flag |-> isReassigned]
             ELSE GlobalInjectorGet
    IN  [g |-> g, read |-> ~given,
         injector |-> IF given THEN arg.providedIn ELSE g.global,
         token |-> IF arg.form \in {"token", "options"} THEN arg.token ELSE Absent]

\* A property the prototype does not have.
NoProperty == [defined |-> FALSE, value |-> Undefined, injector |-> Null, token |-> Absent]

\* Object.defineProperty(target, key, { value: dependency }), with the
\* Injector and the token of the closure that defined it.
_InjectDecorator(key, value, injector, token) ==
    [properties EXCEPT ![key] = [defined |-> TRUE, value |-> value,
                                 injector |-> injector, token |-> token]]

\* A class with `@Inject(arg) key` is defined: Inject(arg) runs, then the
\* decorator it returns runs with the prototype and the key.  An Injector
\* the read of the Global Injector has just created binds nothing and has
\* no parent.
InjectProperty(arg, key) ==
    LET c == Inject(arg)
        token == IF c.token # Absent THEN c.token ELSE DesignType(key)
        r == IF token = Absent THEN Fail(Cur, "UnableToResolveInjectorToken", key)
             ELSE IF c.injector > Len(parent) THEN Fail(Cur, "UnresolvedToken", token)
             ELSE resolve(Cur, c.injector, <<token>>, MaxDepth)
    IN  /\ last = Idle
        /\ ~properties[key].defined
        /\ Len(c.g.parent) <= MaxInjectors
        /\ Invocations < MaxInvocations
        /\ parent' = c.g.parent
        /\ deps' = c.g.deps
        /\ globalInjector' = c.g.global
        /\ isReassigned' = c.g.flag
        /\ reads' = IF c.read THEN reads \cup {c.g.global} ELSE reads
        /\ providers' = r.m.prov
        /\ count' = r.m.count
        /\ heap' = r.m.heap
        /\ properties' = IF r.ok THEN _InjectDecorator(key, r.val[1], c.injector, token)
                         ELSE properties
        /\ last' = Call("Inject", c.injector, IF token = Absent THEN <<>> ELSE <<token>>,
                        key, 0, r, FALSE)
        /\ UNCHANGED <<assigned, pending>>

\* The property read through an accessor that resolves at every access.
PropertyReadResolve(key) ==
    LET P == properties[key]
        r == resolve(Cur, P.injector, <<P.token>>, MaxDepth)
    IN  /\ last = Idle
        /\ P.defined
        /\ Invocations < MaxInvocations
        /\ last' = Call("property", P.injector, <<>>, key, 0,
                        IF r.ok THEN Ok(r.m, <<r.val[1]>>) ELSE r, FALSE)
        /\ providers' = r.m.prov
        /\ count' = r.m.count
        /\ heap' = r.m.heap
        /\ UNCHANGED <<parent, deps, globalInjector, isReassigned, reads, assigned,
                       pending, properties>>

\* `new Receiver().key`: an instance has no property of its own under the
\* key, so the read finds what the prototype holds, or undefined.
PropertyRead(key) ==
    LET P == properties[key]
    IN  /\ last = Idle
        /\ last' = Call("property", P.injector, <<>>, key, 0, Returned(P.value), FALSE)
        /\ UNCHANGED <<parent, deps, providers, globalInjector, isReassigned, count,
                       heap, reads, assigned, pending, properties>>

\* The caller has looked at the outcome of its last call and goes on.
Continue ==
    /\ last # Idle
    /\ pending = <<>>
    /\ last' = Idle
    /\ UNCHANGED <<parent, deps, providers, globalInjector, isReassigned, count,
                   heap, reads, assigned, pending, properties>>

---------------------------------------------------------------------------

Injectors == 1..Len(parent)

Init ==
    /\ parent = <<>>
    /\ deps = <<>>
    /\ providers = <<>>
    /\ globalInjector = Null
    /\ isReassigned = FALSE
    /\ count = [t \in Targets |-> 0]
    /\ heap = <<>>
    /\ last = Idle
    /\ reads = {}
    /\ assigned = {}
    /\ pending = <<>>
    /\ properties = [key \in PropertyKeys |-> NoProperty]

\* Every operation, with every input of the model.
Next ==
    \/ ReadGlobal
    \/ \E val \in {Null} \cup Injectors : AssignGlobal(val)
    \/ \E arg \in {Omitted, Null} \cup Injectors : NewInjector(arg)
    \/ \E i \in Injectors : spawn(i)
    \/ \E P \in ProviderInputs : NewProvider(P)
    \/ \E i \in Injectors, dto \in BindInputs : bind(i, dto)
    \/ \E i \in Injectors, tokens \in TokenLists : ResolveCall(i, tokens)
    \/ \E i \in Injectors, t \in Targets : ApplyCall(i, t)
    \/ \E p \in 1..Len(providers), i \in Injectors : GetCall(p, i)
    \/ Continue

Spec == Init /\ [][Next]_vars

\* The Global Injector and the construction of Injectors.
NextGlobal ==
    \/ ReadGlobal
    \/ \E val \in {Null} \cup Injectors : AssignGlobal(val)
    \/ \E arg \in {Omitted, Null} \cup Injectors : NewInjector(arg)
    \/ \E i \in Injectors : spawn(i)
    \/ Continue

SpecGlobal == Init /\ [][NextGlobal]_vars

\* Registration, in every form of bind, along a chain of Injectors.
NextRegistry ==
    \/ NewInjector(Null)
    \/ \E i \in Injectors : spawn(i)
    \/ \E P \in {ObjectProvider(Prim(7), "K")} : NewProvider(P)
    \/ \E i \in Injectors, dto \in RegistryInputs : bind(i, dto)
    \/ \E i \in Injectors, t \in {"K", "L"} : ResolveCall(i, <<t>>)
    \/ Continue

SpecRegistry == Init /\ [][NextRegistry]_vars

\* Resolution of token lists along a chain of Injectors.
NextResolve ==
    \/ NewInjector(Null)
    \/ \E i \in Injectors : spawn(i)
    \/ \E i \in Injectors, dto \in ResolveInputs : bind(i, dto)
    \/ \E i \in Injectors, tokens \in TokenLists : ResolveCall(i, tokens)
    \/ Continue

SpecResolve == Init /\ [][NextResolve]_vars

\* Singleton providers, bare constructables and the calls that construct.
NextSingleton ==
    \/ NewInjector(Null)
    \/ \E i \in Injectors : spawn(i)
    \/ \E P \in {ClassProvider("A", TRUE, Absent), FactoryProvider("F", TRUE, "K"),
                 FactoryProvider("Z", TRUE, "K")} : NewProvider(P)
    \/ \E i \in Injectors, dto \in SingletonInputs : bind(i, dto)
    \/ \E i \in Injectors : ResolveCall(i, <<"A">>)
    \/ \E i \in Injectors : ApplyCall(i, "B")
    \/ \E p \in 1..Len(providers), i \in Injectors : GetCall(p, i)
    \/ Continue

SpecSingleton == Init /\ [][NextSingleton]_vars

\* Providers that are not singletons, bound and resolved on root Injectors.
NextFresh ==
    \/ NewInjector(Null)
    \/ \E i \in Injectors, dto \in FreshInputs : bind(i, dto)
    \/ \E i \in Injectors, t \in {"A", "K"} : ResolveCall(i, <<t>>)
    \/ Continue

SpecFresh == Init /\ [][NextFresh]_vars

\* Construction by apply, with constants and new objects as arguments.
NextApply ==
    \/ NewInjector(Null)
    \/ \E i \in Injectors : spawn(i)
    \/ \E i \in Injectors, dto \in ApplyInputs : bind(i, dto)
    \/ \E i \in Injectors, t \in {"R", "P", "U"} : ApplyCall(i, t)
    \/ \E i \in Injectors : ResolveCall(i, <<"K">>)
    \/ Continue

SpecApply == Init /\ [][NextApply]_vars

\* Registration alone, on root Injectors: no resolve, no apply, no get.
NextBind ==
    \/ NewInjector(Null)
    \/ NewProvider(ClassProvider("A", TRUE, Absent))
    \/ \E i \in Injectors, dto \in RegisterInputs : bind(i, dto)
    \/ Continue

SpecBind == Init /\ [][NextBind]_vars

\* Bare constructables, bound and resolved.
NextBare ==
    \/ NewInjector(Null)
    \/ \E i \in Injectors : spawn(i)
    \/ \E i \in Injectors, dto \in BareInputs : bind(i, dto)
    \/ \E i \in Injectors, t \in {"A", "B"} : ResolveCall(i, <<t>>)
    \/ Continue

SpecBare == Init /\ [][NextBare]_vars

\* Singleton caches filled through resolve and apply along a chain.
NextFrame ==
    \/ NewInjector(Null)
    \/ \E i \in Injectors : spawn(i)
    \/ \E i \in Injectors, dto \in FrameInputs : bind(i, dto)
    \/ \E i \in Injectors, t \in {"K", "A"} : ResolveCall(i, <<t>>)
    \/ \E i \in Injectors : ApplyCall(i, "P")
    \/ Continue

SpecFrame == Init /\ [][NextFrame]_vars

\* apply of classes and functions, with and without manifest.
NextMode ==
    \/ NewInjector(Null)
    \/ \E i \in Injectors : spawn(i)
    \/ \E i \in Injectors, dto \in {d \in OptionsInputs : d.self = "o4"} : bind(i, dto)
    \/ \E i \in Injectors, t \in {"A", "F", "Z", "G", "U", "R"} : ApplyCall(i, t)
    \/ Continue

SpecMode == Init /\ [][NextMode]_vars

NextReentry ==
    \/ NewInjector(Null)
    \/ \E i \in Injectors, dto \in ReentryInputs : bind(i, dto)
    \/ \E i \in Injectors : \E t \in DOMAIN deps[i] : GetBegin(deps[i][t], i)
    \/ GetFinish
    \/ Continue

\* Gets of singleton Providers that can be entered again while their
\* constructable runs.
SpecReentry == Init /\ [][NextReentry]_vars

NextCycle ==
    \/ NewInjector(Null)
    \/ \E i \in Injectors : spawn(i)
    \/ \E i \in Injectors, dto \in CycleInputs : bind(i, dto)
    \/ \E i \in Injectors, t \in {"X", "Y"} : ResolveCall(i, <<t>>)
    \/ \E i \in Injectors : ApplyCall(i, "X")
    \/ Continue

\* Classes whose manifests name each other.
SpecCycle == Init /\ [][NextCycle]_vars

NextAcyclic ==
    \/ NewInjector(Null)
    \/ \E i \in Injectors : spawn(i)
    \/ \E i \in Injectors, dto \in AcyclicInputs : bind(i, dto)
    \/ \E i \in Injectors, t \in {"B", "K"} : ResolveCall(i, <<t>>)
    \/ \E i \in Injectors : ApplyCall(i, "P")
    \/ Continue

\* Classes whose manifests form no cycle, on roots and children.
SpecAcyclic == Init /\ [][NextAcyclic]_vars

NextOwner ==
    \/ NewInjector(Null)
    \/ \E i \in Injectors : spawn(i)
    \/ \E i \in Injectors, dto \in OwnerInputs : bind(i, dto)
    \/ \E i \in Injectors : ResolveCall(i, <<"R">>)
    \/ Continue

\* A class and its dependency bound at different levels of a chain.
SpecOwner == Init /\ [][NextOwner]_vars

NextShadow ==
    \/ ConstructWithin(Null, "new Injector", MaxShadow)
    \/ \E i \in Injectors : ConstructWithin(i, "spawn", MaxShadow)
    \/ \E i \in Injectors, dto \in ShadowInputs : bind(i, dto)
    \/ \E i \in Injectors : ResolveCall(i, <<"K">>)
    \/ Continue

\* One token bound at several levels of a chain of up to MaxShadow
\* Injectors.
SpecShadow == Init /\ [][NextShadow]_vars

NextRetry ==
    \/ NewInjector(Null)
    \/ \E i \in Injectors, dto \in RetryInputs : bind(i, dto)
    \/ \E i \in Injectors, t \in {"R", "H", "K"} : ResolveCall(i, <<t>>)
    \/ Continue

\* Singletons whose dependency is missing, broken or bound later.
SpecRetry == Init /\ [][NextRetry]_vars

NextPartial ==
    \/ NewInjector(Null)
    \/ \E i \in Injectors, dto \in PartialInputs : bind(i, dto)
    \/ \E i \in Injectors, tokens \in TokenLists : ResolveCall(i, tokens)
    \/ Continue

\* resolve of several tokens of which some are not bound.
SpecPartial == Init /\ [][NextPartial]_vars

\* The arguments of Inject in the scenarios of decorated properties.
InjectArgs ==
    {InjectArg("none", Absent, Null), InjectArg("token", "A", Null),
     InjectArg("options", "A", Null)}
        \cup {InjectArg("injector", Absent, i) : i \in Injectors}
        \cup {InjectArg("options", t, i) : t \in {Absent, "A"}, i \in Injectors}

NextInject ==
    \/ ReadGlobal
    \/ \E i \in Injectors : spawn(i)
    \/ \E i \in Injectors, dto \in DecorationInputs : bind(i, dto)
    \/ \E arg \in InjectArgs, key \in PropertyKeys : InjectProperty(arg, key)
    \/ \E key \in PropertyKeys : PropertyRead(key)
    \/ \E i \in Injectors : ResolveCall(i, <<"A">>)
    \/ Continue

\* Classes with Inject on their properties, defined and instantiated
\* while Injectors are bound and resolved.
SpecInject == Init /\ [][NextInject]_vars

NextTree ==
    \/ ReadGlobal
    \/ \E val \in {Null} \cup Injectors : AssignGlobal(val)
    \/ \E arg \in {Omitted, Null} \cup Injectors : NewInjector(arg)
    \/ \E i \in Injectors : spawn(i)
    \/ \E i \in Injectors, dto \in TreeInputs : bind(i, dto)
    \/ \E i \in Injectors : ResolveCall(i, <<"K">>)
    \/ Continue

\* The Injector tree: the global root, parents given, omitted or spawned.
SpecTree == Init /\ [][NextTree]_vars

\* Every form of the argument of bind, and what resolve finds afterwards.
NextForms ==
    \/ NewInjector(Null)
    \/ \E i \in Injectors : spawn(i)
    \/ NewProvider(ClassProvider("A", TRUE, Absent))
    \/ \E i \in Injectors, dto \in FormInputs : bind(i, dto)
    \/ \E i \in Injectors, t \in {"K", "", "A"} : ResolveCall(i, <<t>>)
    \/ Continue

SpecForms == Init /\ [][NextForms]_vars

---------------------------------------------------------------------------
(* Properties.                                                             *)

RECURSIVE Owner(_, _)
\* The nearest Injector, from i up its ancestors, that binds token t; Null
\* when none does.
Owner(i, t) ==
    IF i = Null THEN Null
    ELSE IF t \in DOMAIN deps[i] THEN i
    ELSE Owner(parent[i], t)

RECURSIVE Produced(_, _, _)
\* What the Providers found for the tokens produce, one after the other.
Produced(m, i, tokens) ==
    IF tokens = <<>> THEN <<>>
    ELSE LET o == Owner(i, Head(tokens))
             g == get(m, deps[o][Head(tokens)], o, MaxDepth)
         IN  g.val \o Produced(g.m, i, Tail(tokens))

\* What makes a Provider the Provider it is: everything but its cache.
Strategy(P) == [P EXCEPT !.instance = Undefined]

\* C1: an Injector c without a local binding for t, whose nearest ancestor
\* binding t is R, resolves t to exactly what R resolves it to: the list
\* holding the value R's Provider produces, without extra wrapping.
C1_Delegation ==
    \A c \in Injectors, t \in Tokens :
        LET R == Owner(c, t)
        IN  (R # Null /\ R # c) =>
                LET rc == resolve(Cur, c, <<t>>, MaxDepth)
                    rr == resolve(Cur, R, <<t>>, MaxDepth)
                IN  rc.ok = rr.ok /\ rc.val = rr.val

\* C2: resolve keeps arity and order: for resolvable tokens t1..tn it returns
\* n elements, the i-th being the value the Provider found for ti produces;
\* resolve() returns the empty list.
C2_ArityOrder ==
    \A i \in Injectors, tokens \in TokenLists :
        (\A j \in 1..Len(tokens) : Owner(i, tokens[j]) # Null) =>
            LET r == resolve(Cur, i, tokens, MaxDepth)
            IN  r.ok => /\ Len(r.val) = Len(tokens)
                        /\ r.val = Produced(Cur, i, tokens)

\* The Class Providers of constructable t.
ClassProvidersOf(t) ==
    {p \in 1..Len(providers) : providers[p].kind = "class" /\ providers[p].target = t}

\* C3: with A provided by singleton Class Providers only, A's constructor has
\* run exactly once per Provider that was asked, and every resolve of A and
\* every B built from it received that Provider's one instance.
C3_ClassSingleton ==
    LET SA == ClassProvidersOf("A")
    IN  (SA # {} /\ \A p \in SA : providers[p].isSingleton) =>
            /\ count["A"] = Cardinality({p \in SA : Truthy(providers[p].instance)})
            /\ \A n \in 1..Len(heap) : heap[n].target = "B" =>
                   \E p \in SA : heap[n].args = <<providers[p].instance>>
            /\ (last.op = "resolve" /\ last.toks = <<"A">> /\ last.ok) =>
                   \E p \in SA : last.val = <<providers[p].instance>>

\* C4: a singleton Factory Provider invokes its function on the first get
\* only: a get after a successful get returns the first result and invokes
\* nothing.
C4_FactoryMemo ==
    \A p \in 1..Len(providers), i \in Injectors :
        (providers[p].kind = "factory" /\ providers[p].isSingleton) =>
            LET r1 == get(Cur, p, i, MaxDepth)
                r2 == get(r1.m, p, i, MaxDepth)
            IN  r1.ok => (r2.ok /\ r2.val = r1.val /\ r2.m.count = r1.m.count)

\* C5: a registered binding is never removed or replaced, and a bind whose
\* token is already in the registry does not throw, warns, returns the
\* Injector itself and registers nothing.
C5_DuplicateBindNoOp ==
    [][/\ \A i \in Injectors : \A k \in DOMAIN deps[i] :
            /\ k \in DOMAIN deps'[i]
            /\ deps'[i][k] = deps[i][k]
            /\ Strategy(providers'[deps[i][k]]) = Strategy(providers[deps[i][k]])
       /\ (last'.op = "bind" /\ last'.toks # <<>>
              /\ last'.toks[1] \in DOMAIN deps[last'.inj])
            => /\ last'.ok
               /\ last'.warned
               /\ last'.val = <<Prim(last'.inj)>>
               /\ deps' = deps
               /\ providers' = providers]_vars

\* C5 witness: a second, different Provider was offered for a bound token.
C5_Witness ==
    /\ last.op = "bind"
    /\ last.warned
    /\ deps[last.inj][last.toks[1]] # last.p

\* C6: resolve of a token bound at no level of the chain throws
\* UnresolvedToken naming that token, and a resolve of several tokens of
\* which one is bound at no level throws and returns nothing.
C6_DelegationFailure ==
    last.op = "resolve" =>
        /\ (Len(last.toks) = 1 /\ Owner(last.inj, last.toks[1]) = Null)
             => (~last.ok /\ last.err = "UnresolvedToken" /\ last.tok = last.toks[1])
        /\ (\E j \in 1..Len(last.toks) : Owner(last.inj, last.toks[j]) = Null)
             => (~last.ok /\ last.val = <<>>)

\* C6 witness: resolve(a, b) on a child, a bound on the chain and b nowhere.
C6_Witness ==
    /\ last.op = "resolve"
    /\ Len(last.toks) = 2
    /\ parent[last.inj] # Null
    /\ Owner(last.inj, last.toks[1]) # Null
    /\ Owner(last.inj, last.toks[2]) = Null
    /\ ~last.ok
    /\ last.err = "UnresolvedToken"
    /\ last.tok = last.toks[2]

\* The Global Injector has been read or assigned.
Locked == reads # {} \/ assigned # {}

\* C7: once the Global Injector has been read or assigned, every assignment
\* throws GlobalInjectorAlreadySet and leaves it unchanged, and the lock is
\* never released.
C7_OneTimeLock ==
    [][Locked =>
         /\ isReassigned'
         /\ last'.op = "GlobalInjectorSet" =>
               /\ ~last'.ok
               /\ last'.err = "GlobalInjectorAlreadySet"
               /\ globalInjector' = globalInjector
               /\ assigned' = assigned]_vars

\* C7 witness: an assignment attempted after a read has failed.
C7_Witness ==
    /\ last.op = "GlobalInjectorSet"
    /\ ~last.ok
    /\ reads # {}
    /\ assigned = {}

\* C8: all reads of the Global Injector return one Injector, and when an
\* Injector X was assigned, that Injector is X.
C8_NoSwap ==
    /\ Cardinality(reads) <= 1
    /\ \A x \in assigned : x # Null => reads \subseteq {x}

\* C8 witness: an Injector was assigned and the Global Injector read since.
C8_Witness ==
    /\ last.op = "GlobalInjectorGet"
    /\ assigned # {}
    /\ Null \notin assigned
    /\ reads = assigned

\* A ProviderOptions record that carries provideConstant alone.
IsConstantForm(d) ==
    /\ d.form = "options"
    /\ d.provide = Absent
    /\ d.provideFactory = Absent
    /\ d.provideConstant # Undefined

\* C9: bind({key: k, provideConstant: v}) on an Injector where k is unbound
\* registers a Constant Provider for v under k, so that resolve(k) returns
\* [v], whatever the singleton field says.
C9_ConstantForm ==
    [][\A d \in OptionsInputs, i \in Injectors :
          (/\ IsConstantForm(d)
           /\ last'.op = "bind"
           /\ last'.target = d.self
           /\ last'.inj = i
           /\ d.key \notin DOMAIN deps[i])
          => /\ d.key \in DOMAIN deps'[i]
             /\ providers'[deps'[i][d.key]] = ObjectProvider(d.provideConstant, d.key)
             /\ LET r == resolve(Cur, i, <<d.key>>, MaxDepth)'
                IN  r.ok /\ r.val = <<d.provideConstant>>]_vars

\* C10: with the @Singleton class A bound once as a bare constructable, A's
\* constructor runs at most once and every B built received the same A, while
\* each apply of the undecorated B builds a new B.
C10_SingletonDecorator ==
    LET SA == ClassProvidersOf("A")
    IN  (/\ SingletonMeta("A")
         /\ Cardinality(SA) = 1
         /\ \A p \in SA : providers[p] = ClassProvider("A", FALSE, Absent))
        => /\ count["A"] <= 1
           /\ \A n1, n2 \in 1..Len(heap) :
                 (heap[n1].target = "B" /\ heap[n2].target = "B")
                     => heap[n1].args = heap[n2].args
           /\ (last.op = "apply" /\ last.target = "B" /\ last.ok)
                 => last.val = <<Obj(Len(heap))>>

\* A Class or Factory Provider with singleton = false.
IsFresh(P) == P.kind \in {"class", "factory"} /\ ~P.isSingleton

\* Every invocation of target t builds a new object.
BuildsObject(t) == HasPrototype(t) \/ Returns(t) = Undefined

\* Two calls in a row, r1 then r2, of a Provider of target t: both invoked
\* t.
Reinvoked(r1, r2, t) ==
    /\ r1.m.count[t] = count[t] + 1
    /\ r2.m.count[t] = count[t] + 2

\* C11 as stated: for a non-singleton Class or Factory Provider, two gets,
\* and two resolves of its token on the Injector that binds it, each invoke
\* the target and return two distinct instances.
C11_AlwaysDistinct ==
    \A i \in Injectors : \A k \in DOMAIN deps[i] :
        LET p == deps[i][k]
            t == providers[p].target
            g1 == get(Cur, p, i, MaxDepth)
            g2 == get(g1.m, p, i, MaxDepth)
            r1 == resolve(Cur, i, <<k>>, MaxDepth)
            r2 == resolve(r1.m, i, <<k>>, MaxDepth)
        IN  IsFresh(providers[p]) =>
                /\ (g1.ok /\ g2.ok) => (Reinvoked(g1, g2, t) /\ g1.val # g2.val)
                /\ (r1.ok /\ r2.ok) => (Reinvoked(r1, r2, t) /\ r1.val # r2.val)

\* C11: for a non-singleton Class or Factory Provider, two gets, and two
\* resolves of its token on the Injector that binds it, each invoke the
\* target; the two results are distinct objects when the target builds a
\* new object on every invocation, and otherwise whatever the function
\* returned each time.
C11_Freshness ==
    \A i \in Injectors : \A k \in DOMAIN deps[i] :
        LET p == deps[i][k]
            t == providers[p].target
            g1 == get(Cur, p, i, MaxDepth)
            g2 == get(g1.m, p, i, MaxDepth)
            r1 == resolve(Cur, i, <<k>>, MaxDepth)
            r2 == resolve(r1.m, i, <<k>>, MaxDepth)
        IN  IsFresh(providers[p]) =>
                /\ (g1.ok /\ g2.ok) =>
                      /\ Reinvoked(g1, g2, t)
                      /\ IF BuildsObject(t) THEN g1.val # g2.val
                         ELSE g1.val = <<Returns(t)>> /\ g2.val = <<Returns(t)>>
                /\ (r1.ok /\ r2.ok) =>
                      /\ Reinvoked(r1, r2, t)
                      /\ IF BuildsObject(t) THEN r1.val # r2.val
                         ELSE r1.val = <<Returns(t)>> /\ r2.val = <<Returns(t)>>

\* C11 witness: the second resolve of a class bound without singleton has
\* built its second instance.
C11_Witness ==
    /\ last.op = "resolve"
    /\ last.ok
    /\ Len(last.toks) = 1
    /\ last.toks[1] \in DOMAIN deps[last.inj]
    /\ LET P == providers[deps[last.inj][last.toks[1]]]
       IN  /\ P = ClassProvider("A", FALSE, Absent)
           /\ count["A"] = 2
           /\ last.val = <<Obj(Len(heap))>>

\* C12: a token bound to a Constant Provider wrapping v resolves to [v] on
\* the Injector that binds it, call after call; get returns v whichever
\* Injector it is given; and neither invokes anything nor changes a cache.
C12_ConstantRoundTrip ==
    \A i \in Injectors : \A k \in DOMAIN deps[i] :
        LET p == deps[i][k]
            v == providers[p].obj
            r1 == resolve(Cur, i, <<k>>, MaxDepth)
            r2 == resolve(r1.m, i, <<k>>, MaxDepth)
        IN  providers[p].kind = "object" =>
                /\ r1 = Ok(Cur, <<v>>)
                /\ r2 = r1
                /\ \A j \in Injectors : get(Cur, p, j, MaxDepth) = Ok(Cur, <<v>>)
                /\ (last.op = "resolve" /\ last.inj = i /\ last.toks = <<k>>)
                      => (last.ok /\ last.val = <<v>>)

\* C12 witness: after objects were constructed, the constant 6 bound under
\* K was resolved on the Injector that binds it.
C12_Witness ==
    /\ last.op = "resolve"
    /\ last.toks = <<"K">>
    /\ "K" \in DOMAIN deps[last.inj]
    /\ providers[deps[last.inj]["K"]] = ObjectProvider(Prim(6), "K")
    /\ last.val = <<Prim(6)>>
    /\ Invocations > 0

\* A Class or Factory Provider whose target has no manifest.
NoManifest(P) == P.kind \in {"class", "factory"} /\ ~HasManifest(P.target)

C14_BindRegistersOnly ==
    /\ \A t \in Targets : count[t] = 0
    /\ heap = <<>>
    /\ \A p \in 1..Len(providers) : providers[p].instance = Undefined

\* C14 witness: a second binding, of a singleton Provider, was added to an
\* Injector.
C14_Witness ==
    /\ last.op = "bind"
    /\ last.ok
    /\ ~last.warned
    /\ providers[last.p].isSingleton
    /\ Cardinality(DOMAIN deps[last.inj]) = 2

\* C15: a successful apply of target t on Injector i has invoked t once,
\* with as many arguments as its manifest has tokens; the argument at each
\* position is what the Provider bound for the token at that position
\* produces: the constant itself for a Constant Provider, an instance of
\* its class for a Class Provider.
C15_ManifestOrder ==
    [][\A i \in Injectors :
          (last'.op = "apply" /\ last'.inj = i /\ last'.ok) =>
              LET t == last'.target
                  built == heap'[Len(heap')]
              IN  /\ count'[t] = count[t] + 1
                  /\ last'.val = <<Obj(Len(heap'))>>
                  /\ built.target = t
                  /\ built.args = resolve(Cur, i, Manifest(t), MaxDepth).val
                  /\ Len(built.args) = Len(Manifest(t))
                  /\ \A j \in 1..Len(Manifest(t)) :
                        LET x == Manifest(t)[j]
                            P == providers[deps[i][x]]
                            a == built.args[j]
                        IN  x \in DOMAIN deps[i] =>
                                IF P.kind = "object" THEN a = P.obj
                                ELSE /\ a.wrap = 0
                                     /\ a.tag = "obj"
                                     /\ heap'[a.id].target = P.target]_vars

\* C15 witness: P, whose manifest is ["K", A], was built with the constant
\* 6 bound under K as first argument and an A as second.
C15_Witness ==
    /\ last.op = "apply"
    /\ last.target = "P"
    /\ last.ok
    /\ LET args == heap[Len(heap)].args
       IN  /\ Len(args) = 2
           /\ args[1] = Prim(6)
           /\ args[2].tag = "obj"
           /\ heap[args[2].id].target = "A"

\* C16: bind(null) and bind(undefined) throw InvalidProvider and leave every
\* registry and every Provider as they were.
C16_NullBind ==
    [][\A i \in Injectors, dto \in {NullDto, UndefinedDto} :
          bind(i, dto) =>
              /\ ~last'.ok
              /\ last'.err = "InvalidProvider"
              /\ deps' = deps
              /\ providers' = providers]_vars

\* C16 witness: bind(null) has thrown on an Injector that holds a binding.
C16_Witness ==
    /\ last.op = "bind"
    /\ ~last.ok
    /\ last.err = "InvalidProvider"
    /\ DOMAIN deps[last.inj] # {}

\* A ProviderOptions record that carries provide alone.
IsClassForm(d) ==
    /\ d.form = "options"
    /\ d.provide # Absent
    /\ d.provideFactory = Absent
    /\ d.provideConstant = Undefined

\* A ProviderOptions record that carries provideFactory alone.
IsFactoryForm(d) ==
    /\ d.form = "options"
    /\ d.provide = Absent
    /\ d.provideFactory # Absent
    /\ d.provideConstant = Undefined

\* C17: bind({key, provide: C, singleton?}) on an Injector where key is
\* unbound registers under key a Class Provider for C, and
\* bind({key, provideFactory: f, singleton?}) a Factory Provider for f, with
\* the singleton flag given, false when the field is omitted, and an empty
\* cache.
C17_ClassFactoryForms ==
    [][\A d \in OptionsInputs, i \in Injectors :
          (/\ IsClassForm(d) \/ IsFactoryForm(d)
           /\ last'.op = "bind"
           /\ last'.target = d.self
           /\ last'.inj = i
           /\ d.key \notin DOMAIN deps[i])
          => /\ last'.ok
             /\ d.key \in DOMAIN deps'[i]
             /\ providers'[deps'[i][d.key]] =
                    [kind |-> IF IsClassForm(d) THEN "class" ELSE "factory",
                     target |-> IF IsClassForm(d) THEN d.provide ELSE d.provideFactory,
                     isSingleton |-> (d.singleton = "true"),
                     token |-> d.key,
                     instance |-> Undefined,
                     obj |-> Undefined]]_vars

\* C18: the Provider that bind builds from a specification record or a bare
\* constructable is a Class Provider for provide when provide is present,
\* else a Factory Provider for provideFactory when that is present, else a
\* Constant Provider for provideConstant when that is present, and a Class
\* Provider for the argument itself only when none of the three is.
C18_Precedence ==
    [][\A d \in FormInputs :
          (/\ d.form \in {"options", "type"}
           /\ last'.op = "bind"
           /\ last'.target = d.self
           /\ Len(providers') = Len(providers) + 1)
          => LET N == providers'[Len(providers')]
             IN  IF d.provide # Absent
                 THEN N.kind = "class" /\ N.target = d.provide
                 ELSE IF d.provideFactory # Absent
                 THEN N.kind = "factory" /\ N.target = d.provideFactory
                 ELSE IF d.provideConstant # Undefined
                 THEN N.kind = "object" /\ N.obj = d.provideConstant
                 ELSE N.kind = "class" /\ N.target = d.self]_vars

\* The Class Provider that the claim describes for a bare constructable t.
BareProvider(t) ==
    [kind |-> "class", target |-> t, isSingleton |-> FALSE, token |-> t,
     instance |-> Undefined, obj |-> Undefined]

\* On every Injector where a class is bound as a bare constructable, two
\* resolves of it in a row that succeed each build a new instance of it.
FreshlyConstructed ==
    \A i \in Injectors : \A t \in DOMAIN deps[i] :
        LET r1 == resolve(Cur, i, <<t>>, MaxDepth)
            r2 == resolve(r1.m, i, <<t>>, MaxDepth)
        IN  (providers[deps[i][t]] = BareProvider(t) /\ r1.ok /\ r2.ok) =>
                /\ r1.val = <<Obj(Len(r1.m.heap))>>
                /\ Len(r1.m.heap) > Len(heap)
                /\ r1.m.heap[Len(r1.m.heap)].target = t
                /\ r2.val = <<Obj(Len(r2.m.heap))>>
                /\ Len(r2.m.heap) > Len(r1.m.heap)
                /\ r2.m.heap[Len(r2.m.heap)].target = t
                /\ r2.m.count[t] = count[t] + 2

C20_ResolveFrame ==
    [][last'.op \in {"resolve", "apply", "get"} =>
          /\ parent' = parent
          /\ deps' = deps
          /\ globalInjector' = globalInjector
          /\ isReassigned' = isReassigned
          /\ Len(providers') = Len(providers)
          /\ \A p \in 1..Len(providers) :
                providers'[p] # providers[p] =>
                    /\ providers[p].isSingleton
                    /\ ~Truthy(providers[p].instance)
                    /\ Strategy(providers'[p]) = Strategy(providers[p])
                    /\ providers'[p].instance.tag = "obj"
                    /\ providers'[p].instance.id > Len(heap)
                    /\ providers'[p].instance.id <= Len(heap')]_vars

\* C20 witness: a resolve on a child was answered by its parent, filled the
\* singleton cache there, and the child's registry still lacks the token.
C20_Witness ==
    /\ last.op = "resolve"
    /\ last.ok
    /\ last.toks = <<"K">>
    /\ "K" \notin DOMAIN deps[last.inj]
    /\ parent[last.inj] # Null
    /\ "K" \in DOMAIN deps[parent[last.inj]]
    /\ Truthy(providers[deps[parent[last.inj]]["K"]].instance)

C29_StructuralMode ==
    [][\A i \in Injectors :
          (last'.op = "apply" /\ last'.inj = i /\ last'.ok) =>
              LET t == last'.target
                  args == resolve(Cur, i, Manifest(t), MaxDepth).val
                  built == heap'[Len(heap')]
              IN  IF HasPrototype(t)
                  THEN /\ Len(heap') > Len(heap)
                       /\ built = [target |-> t, args |-> args, mode |-> "new"]
                       /\ last'.val = <<Obj(Len(heap'))>>
                  ELSE IF Returns(t) = Undefined
                  THEN /\ Len(heap') > Len(heap)
                       /\ built = [target |-> t, args |-> args, mode |-> "call"]
                       /\ last'.val = <<Obj(Len(heap'))>>
                  ELSE /\ heap' = heap
                       /\ last'.val = <<Returns(t)>>]_vars

\* C29 witness: G, a function with a prototype whose body returns 0, was
\* applied and an object came back.
C29_Witness ==
    /\ last.op = "apply"
    /\ last.target = "G"
    /\ last.ok
    /\ last.val = <<Obj(Len(heap))>>
    /\ heap[Len(heap)].mode = "new"

---------------------------------------------------------------------------
(* The Injector tree.                                                      *)

\* The Global Injector in place was created by a read, not assigned.
CreatedByRead == globalInjector # Null /\ assigned \subseteq {Null}

\* C22: a read of the Global Injector while none is set creates an Injector
\* with parent null and an empty registry and returns it; on a Global
\* Injector created this way every token it does not bind fails with
\* UnresolvedToken naming the token.
C22_FirstReadCreatesRoot ==
    /\ [](CreatedByRead =>
            /\ parent[globalInjector] = Null
            /\ \A t \in Tokens \ DOMAIN deps[globalInjector] :
                  LET r == resolve(Cur, globalInjector, <<t>>, MaxDepth)
                  IN  ~r.ok /\ r.err = "UnresolvedToken" /\ r.tok = t)
    /\ [][(globalInjector = Null /\ last'.op = "GlobalInjectorGet") =>
             /\ globalInjector' = Len(parent) + 1
             /\ parent' = Append(parent, Null)
             /\ deps' = Append(deps, <<>>)
             /\ isReassigned'
             /\ last'.val = <<Prim(globalInjector')>>]_vars

\* C22 witness: "K" is bound on another Injector, and resolve("K") on the
\* Global Injector a read created fails with UnresolvedToken.
C22_Witness ==
    /\ CreatedByRead
    /\ last.op = "resolve"
    /\ last.inj = globalInjector
    /\ ~last.ok
    /\ last.err = "UnresolvedToken"
    /\ \E j \in Injectors : j < globalInjector /\ "K" \in DOMAIN deps[j]

\* C23: spawn() on Injector i adds one Injector with parent i and an empty
\* registry, returns it and changes nothing else, exactly what
\* new Injector(i) leaves; and two Injectors with the same parent and the
\* same registry resolve every token list to the same outcome.
C23_SpawnIsConstruct ==
    /\ [](\A a, b \in Injectors :
            (parent[a] = parent[b] /\ deps[a] = deps[b]) =>
                \A tokens \in TokenLists :
                    resolve(Cur, a, tokens, MaxDepth) = resolve(Cur, b, tokens, MaxDepth))
    /\ [][\A i \in Injectors : spawn(i) =>
             /\ parent' = Append(parent, i)
             /\ deps' = Append(deps, <<>>)
             /\ last'.inj = Len(parent) + 1
             /\ last'.val = <<Prim(Len(parent) + 1)>>
             /\ [last' EXCEPT !.op = "new Injector"]
                    = Call("new Injector", Len(parent) + 1, <<>>, Absent, i,
                           Returned(Prim(Len(parent) + 1)), FALSE)
             /\ UNCHANGED <<providers, globalInjector, isReassigned, count, heap,
                            reads, assigned, pending>>]_vars

\* C23 witness: spawn() has just returned the child of an Injector that
\* binds "K", and the receiver still binds it.
C23_Witness ==
    /\ last.op = "spawn"
    /\ last.p \in Injectors
    /\ parent[last.inj] = last.p
    /\ deps[last.inj] = <<>>
    /\ "K" \in DOMAIN deps[last.p]
    /\ resolve(Cur, last.inj, <<"K">>, MaxDepth).ok

\* C24: new Injector() has the Global Injector as its parent, creating it
\* first if none is set; new Injector(null) has no parent.  An Injector
\* whose parent is the Global Injector resolves a token bound only there,
\* and an Injector without a parent fails with UnresolvedToken on every
\* token it does not bind, whatever the Global Injector binds.
C24_DefaultParent ==
    /\ [](\A i \in Injectors : \A t \in Tokens \ DOMAIN deps[i] :
            LET r == resolve(Cur, i, <<t>>, MaxDepth)
            IN  /\ (parent[i] = Null) =>
                      (~r.ok /\ r.err = "UnresolvedToken" /\ r.tok = t)
                /\ (parent[i] # Null /\ parent[i] = globalInjector
                        /\ t \in DOMAIN deps[globalInjector]) =>
                      LET g == get(Cur, deps[globalInjector][t], globalInjector, MaxDepth)
                      IN  r.ok /\ g.ok /\ r.m = g.m /\ r.val = <<ArrayOf(g.val[1])>>)
    /\ [][/\ NewInjector(Omitted) =>
                /\ globalInjector' # Null
                /\ (globalInjector # Null => globalInjector' = globalInjector)
                /\ parent'[Len(parent')] = globalInjector'
                /\ deps'[Len(deps')] = <<>>
          /\ NewInjector(Null) =>
                /\ parent' = Append(parent, Null)
                /\ globalInjector' = globalInjector]_vars

\* C24 witness: "K" is bound on the Global Injector only, and resolve("K")
\* has succeeded on an Injector made by new Injector().
C24_Witness ==
    /\ last.op = "resolve"
    /\ last.ok
    /\ globalInjector # Null
    /\ parent[last.inj] = globalInjector
    /\ \A j \in Injectors : "K" \in DOMAIN deps[j] <=> j = globalInjector
    /\ reads = {globalInjector}
    /\ assigned = {}
    /\ last.inj > globalInjector

RECURSIVE ChainLength(_)
\* The number of Injectors on the ancestor chain of i, i included.
ChainLength(i) == IF i = Null THEN 0 ELSE 1 + ChainLength(parent[i])

---------------------------------------------------------------------------
(* The singleton cache and the Injectors.                                  *)

\* C26: when two Injectors reach the same singleton Provider for a token,
\* each by its own registry or by delegation, a resolve on the one followed
\* by a resolve on the other returns the Provider's one instance both
\* times, and the second resolve invokes nothing and changes nothing.
C26_ProviderScopedCache ==
    \A i, j \in Injectors, t \in {"A", "K"} :
        LET oi == Owner(i, t)
            oj == Owner(j, t)
        IN  (oi # Null /\ oj # Null /\ deps[oi][t] = deps[oj][t]
                /\ providers[deps[oi][t]].isSingleton) =>
                LET r1 == resolve(Cur, i, <<t>>, MaxDepth)
                    r2 == resolve(r1.m, j, <<t>>, MaxDepth)
                IN  r1.ok => /\ r1.val = <<r1.m.prov[deps[oi][t]].instance>>
                             /\ r2.ok
                             /\ r2.val = r1.val
                             /\ r2.m = r1.m

\* C27: a get of a singleton Provider enters the constructable only after
\* it has read an empty cache, and entering changes no cache; every get that
\* has entered, when its constructable returns, has invoked it once, stores
\* the object built as the Provider's instance and returns it, whatever
\* another get of the same Provider has stored in between.
C27_CheckThenAct ==
    [][/\ Len(pending') > Len(pending) =>
            /\ ~Truthy(providers[Head(pending').p].instance)
            /\ providers'[Head(pending').p] = providers[Head(pending').p]
            /\ Tail(pending') = pending
       /\ (pending # <<>> /\ pending' = Tail(pending)) =>
            LET f == Head(pending)
                t == providers[f.p].target
            IN  /\ count' = [count EXCEPT ![t] = @ + 1]
                /\ heap' = Append(heap, [target |-> t, args |-> f.args,
                                         mode |-> IF HasPrototype(t) THEN "new"
                                                  ELSE "call"])
                /\ providers' = [providers EXCEPT ![f.p].instance = Obj(Len(heap'))]
                /\ last'.ok
                /\ last'.val = <<Obj(Len(heap'))>>]_vars

\* C27 witness: one singleton Provider of class A is the only Provider, two
\* gets of it were in progress at once and both have returned: A was
\* constructed twice, and the get that returned last overwrote the instance
\* the other get had stored and returned.
C27_Witness ==
    /\ pending = <<>>
    /\ Len(providers) = 1
    /\ providers[1].kind = "class"
    /\ providers[1].isSingleton
    /\ count["A"] = 2
    /\ Len(heap) = 2
    /\ last.op = "get"
    /\ last.val = <<Obj(2)>>
    /\ providers[1].instance = Obj(2)

---------------------------------------------------------------------------
(* Cyclic and acyclic manifests.                                           *)

RECURSIVE Requires(_, _, _)
\* The lookups that start with token t on Injector i go on for n more
\* constructions at least: t is bound on the chain of i, and the first
\* token of its class's manifest, looked up on the Injector that binds t,
\* goes on for n - 1 more.
Requires(i, t, n) ==
    \/ n = 0
    \/ LET o == Owner(i, t)
       IN  /\ o # Null
           /\ Manifest(providers[deps[o][t]].target) # <<>>
           /\ Requires(o, Manifest(providers[deps[o][t]].target)[1], n - 1)

\* The lookups never end: every step stays on an Injector or moves to an
\* ancestor, so 2 * Len(parent) + 2 of them repeat an Injector and a token.
Cyclic(i, t) == Requires(i, t, 2 * Len(parent) + 2)

\* C28: with X requiring Y and Y requiring X, resolve of a token whose
\* lookups never end, and apply of the class X whose first argument is such
\* a token, end with the stack exhausted for every depth the stack allows,
\* never with a value, never with UnresolvedToken or ManifestUnavailable,
\* with nothing constructed; no Provider, singleton or not, ever holds an
\* instance; and a lookup that does end in this scenario ends with
\* UnresolvedToken.
C28_CyclesNotDetected ==
    /\ \A p \in 1..Len(providers) : providers[p].instance = Undefined
    /\ Invocations = 0
    /\ \A i \in Injectors, t \in {"X", "Y"} :
          IF Cyclic(i, t)
          THEN \A n \in 0..MaxDepth :
                  /\ resolve(Cur, i, <<t>>, n).err = "StackExhausted"
                  /\ resolve(Cur, i, <<t>>, n).m = Cur
                  /\ n > 0 => /\ apply(Cur, i, Manifest(t)[1], n).err = "StackExhausted"
                              /\ apply(Cur, i, Manifest(t)[1], n).m = Cur
          ELSE resolve(Cur, i, <<t>>, MaxDepth).err = "UnresolvedToken"
    /\ (last.op \in {"resolve", "apply"} /\ last.err = "StackExhausted") =>
          IF last.op = "resolve" THEN Cyclic(last.inj, last.toks[1])
          ELSE Cyclic(last.inj, Manifest(last.target)[1])

\* C28 witness: X and Y are bound as singletons on one Injector, and
\* resolve(X) on its child has ended with the stack exhausted.
C28_Witness ==
    /\ last.op = "resolve"
    /\ last.toks = <<"X">>
    /\ last.err = "StackExhausted"
    /\ parent[last.inj] # Null
    /\ LET o == parent[last.inj]
       IN  /\ DOMAIN deps[o] = {"X", "Y"}
           /\ providers[deps[o]["X"]].isSingleton
           /\ providers[deps[o]["Y"]].isSingleton
           /\ providers[deps[o]["X"]].instance = Undefined

RECURSIVE Walk(_, _)
\* The Injectors resolve consults for token t from Injector i: i itself,
\* then its parent, up to the one that binds t or has no parent.
Walk(i, t) ==
    IF t \in DOMAIN deps[i] \/ parent[i] = Null THEN 1
    ELSE 1 + Walk(parent[i], t)

\* The class a token of the acyclic scenarios is provided by: "K" by U, a
\* class token by the class itself.
ClassBehind(k) == IF k = "K" THEN "U" ELSE k

\* The largest of a non-empty set of numbers.
Max(S) == CHOOSE x \in S : \A y \in S : y <= x

RECURSIVE Height(_)
\* The nested apply calls the construction of t needs: its own and those of
\* the deepest class its manifest asks for.
Height(t) ==
    IF ~HasManifest(t) \/ Manifest(t) = <<>> THEN 1
    ELSE 1 + Max({Height(ClassBehind(Manifest(t)[j])) : j \in 1..Len(Manifest(t))})

\* The nested constructions the deepest of the acyclic manifests needs: B,
\* then its A; P, then the class behind "K".
NeededDepth == Max({Height(t) : t \in {"A", "B", "P", "U"}})

\* C30: with manifests that form no cycle, every resolve and every apply on
\* every Injector ends with values, with UnresolvedToken or with
\* ManifestUnavailable, never with the stack exhausted; a stack of
\* NeededDepth nested constructions is enough for it, a deeper stack
\* changes nothing; and the lookup of a token consults at most as many
\* Injectors as the ancestor chain has.
C30_Termination ==
    /\ [](/\ last.err \in {"none", "UnresolvedToken", "ManifestUnavailable"}
          /\ last.ok <=> last.err = "none"
          /\ \A i \in Injectors : \A t \in {"A", "B", "K"} :
                Walk(i, t) <= ChainLength(i))
    /\ [][\A i \in Injectors : \A n \in NeededDepth..MaxDepth :
             (last'.op \in {"resolve", "apply"} /\ last'.inj = i) =>
                 LET r == IF last'.op = "resolve" THEN resolve(Cur, i, last'.toks, n)
                          ELSE apply(Cur, i, last'.target, n)
                 IN  /\ r.ok = last'.ok
                     /\ r.val = last'.val
                     /\ r.err = last'.err
                     /\ r.m = Mem(providers', count', heap')]_vars

\* C30 witness: resolve(B) on a child has returned a B built by the parent,
\* which binds B and A: two Injectors consulted, two nested constructions.
C30_Witness ==
    /\ last.op = "resolve"
    /\ last.toks = <<"B">>
    /\ last.ok
    /\ parent[last.inj] # Null
    /\ Walk(last.inj, "B") = 2
    /\ ChainLength(last.inj) = 2
    /\ heap[Len(heap)].target = "B"
    /\ Len(heap[Len(heap)].args) = 1

---------------------------------------------------------------------------
(* Delegation and the Injector a Provider runs against.                    *)

RECURSIVE Descends(_, _)
\* Injector j is Injector i or has it on its ancestor chain.
Descends(j, i) == j # Null /\ (j = i \/ Descends(parent[j], i))

\* Two outcomes are the same but for Providers created in between.
SameOutcome(after, before) ==
    /\ after.ok = before.ok
    /\ after.val = before.val
    /\ after.err = before.err
    /\ after.tok = before.tok
    /\ after.m.count = before.m.count
    /\ after.m.heap = before.m.heap
    /\ SubSeq(after.m.prov, 1, Len(before.m.prov)) = before.m.prov

\* A bind of "K" on Injector i, which does not bind it, while an ancestor
\* does, has just returned.
Shadowed(i) ==
    /\ last'.op = "bind"
    /\ last'.inj = i
    /\ last'.toks = <<"K">>
    /\ "K" \notin DOMAIN deps[i]
    /\ Owner(parent[i], "K") # Null

\* The bind has registered a new Provider on i only, without a warning, and
\* i resolves "K" with it.
ShadowBound(i) ==
    /\ last'.ok
    /\ ~last'.warned
    /\ providers' = Append(providers, providers'[Len(providers')])
    /\ deps' = [deps EXCEPT ![i] = ("K" :> Len(providers')) @@ deps[i]]
    /\ (resolve(Cur, i, <<"K">>, MaxDepth) = get(Cur, Len(providers), i, MaxDepth))'

\* Injector j resolves "K" after the step as before it: it finds "K" on
\* the same Injector of its chain, or nowhere, and the Provider found there
\* gives the same outcome.
ResolvesAsBefore(j) ==
    /\ deps'[j] = deps[j]
    /\ parent'[j] = parent[j]
    /\ Owner(j, "K")' = Owner(j, "K")
    /\ Owner(j, "K") # Null =>
          LET o == Owner(j, "K")
          IN  SameOutcome(get(Cur, deps[o]["K"], o, MaxDepth)',
                          get(Cur, deps[o]["K"], o, MaxDepth))

\* C32 as stated: after a bind of "K" on a child whose ancestor binds "K",
\* the bind has succeeded without a warning, the child resolves "K" with
\* its own Provider, and every other Injector resolves "K" as before.
C32_ShadowingAllOthers ==
    [][\A i \in Injectors : Shadowed(i) =>
          /\ ShadowBound(i)
          /\ \A j \in Injectors \ {i} : ResolvesAsBefore(j)]_vars

\* C32: after a bind of "K" on a child whose ancestor binds "K", the bind
\* has succeeded without a warning, the child resolves "K" with its own
\* Provider, every Injector that does not descend from the child resolves
\* "K" as before, and every descendant of the child that found "K" above
\* the child before now finds it on the child.
C32_Shadowing ==
    [][\A i \in Injectors : Shadowed(i) =>
          /\ ShadowBound(i)
          /\ \A j \in Injectors :
                IF ~Descends(j, i) THEN ResolvesAsBefore(j)
                ELSE (Owner(j, "K") = Owner(i, "K")) => (Owner(j, "K") = i)']_vars

\* C32 witness: the root binds the constant under "K", its child has just
\* bound a singleton class under "K" without a warning, the child of the
\* child binds nothing; the root still resolves "K" to the constant, the
\* child and its child to an instance of the class.
C32_Witness ==
    /\ last.op = "bind"
    /\ last.ok
    /\ ~last.warned
    /\ parent[last.inj] # Null
    /\ parent[parent[last.inj]] = Null
    /\ providers[deps[last.inj]["K"]].kind = "class"
    /\ "K" \in DOMAIN deps[parent[last.inj]]
    /\ providers[deps[parent[last.inj]]["K"]].kind = "object"
    /\ deps[last.inj]["K"] = Len(providers)
    /\ resolve(Cur, parent[last.inj], <<"K">>, MaxDepth).val = <<Prim(6)>>
    /\ resolve(Cur, last.inj, <<"K">>, MaxDepth).val = <<Obj(Len(heap) + 1)>>
    /\ \E j \in Injectors :
          /\ parent[j] = last.inj
          /\ deps[j] = <<>>
          /\ resolve(Cur, j, <<"K">>, MaxDepth).val = <<ArrayOf(Obj(Len(heap) + 1))>>

---------------------------------------------------------------------------
(* Failures.                                                               *)

\* Provider p is a singleton Class or Factory Provider with an empty cache.
EmptySingleton(p) ==
    /\ providers[p].kind # "object"
    /\ providers[p].isSingleton
    /\ ~Truthy(providers[p].instance)

\* C33: a get of a singleton Provider that fails leaves the memory as it
\* was, the Provider's cache empty and nothing constructed; a resolve that
\* reaches a singleton with an empty cache and succeeds has constructed the
\* target once and the cache holds what it returned; and when "K" is bound
\* on an Injector whose singleton failed for want of "K", the next get of
\* the singleton succeeds.
C33_FailedSingletonRetry ==
    /\ [](\A i \in Injectors : \A t \in DOMAIN deps[i] :
            EmptySingleton(deps[i][t]) =>
                LET r == get(Cur, deps[i][t], i, MaxDepth)
                IN  ~r.ok => r.m = Cur)
    /\ [][\A i \in Injectors :
             /\ (last'.op = "resolve" /\ last'.inj = i
                    /\ last'.toks[1] \in DOMAIN deps[i]
                    /\ EmptySingleton(deps[i][last'.toks[1]])) =>
                   LET p == deps[i][last'.toks[1]]
                   IN  IF last'.ok
                       THEN /\ providers'[p].instance = last'.val[1]
                            /\ count'[providers[p].target] = count[providers[p].target] + 1
                       ELSE UNCHANGED <<providers, count, heap>>
             /\ (last'.op = "bind" /\ last'.inj = i /\ last'.toks = <<"K">>
                    /\ providers'[Len(providers')].kind = "object") =>
                   \A t \in DOMAIN deps[i] :
                       (EmptySingleton(deps[i][t])
                           /\ get(Cur, deps[i][t], i, MaxDepth).err = "UnresolvedToken") =>
                           /\ EmptySingleton(deps[i][t])'
                           /\ get(Cur, deps[i][t], i, MaxDepth).ok']_vars

\* C33 witness: the singleton class R was bound while "K" was missing, "K"
\* was bound afterwards, and resolve(R) has constructed R with it and
\* cached the instance.
C33_Witness ==
    /\ last.op = "resolve"
    /\ last.toks = <<"R">>
    /\ last.ok
    /\ DOMAIN deps[last.inj] = {"R", "K"}
    /\ deps[last.inj]["R"] < deps[last.inj]["K"]
    /\ providers[deps[last.inj]["R"]].isSingleton
    /\ providers[deps[last.inj]["R"]].instance = last.val[1]
    /\ count["R"] = 1
    /\ heap[Len(heap)] = [target |-> "R", args |-> <<Prim(6)>>, mode |-> "new"]

RECURSIVE OkPrefix(_, _, _)
\* How many of the tokens, from the left and one after the other, resolve
\* on Injector i before the first one fails.
OkPrefix(m, i, tokens) ==
    IF tokens = <<>> THEN 0
    ELSE LET h == resolve(m, i, <<Head(tokens)>>, MaxDepth)
         IN  IF h.ok THEN 1 + OkPrefix(h.m, i, Tail(tokens)) ELSE 0

\* C34: a resolve of several tokens that fails returns nothing and reports
\* the first token, from the left, that fails; the memory it leaves is the
\* one the tokens before that token have left, caches included, so those
\* Providers were invoked and the Providers of the tokens after it were
\* not.
C34_NoRollback ==
    [][\A i \in Injectors :
          (last'.op = "resolve" /\ last'.inj = i /\ ~last'.ok) =>
              LET n == OkPrefix(Cur, i, last'.toks)
                  pre == resolve(Cur, i, SubSeq(last'.toks, 1, n), MaxDepth)
              IN  /\ n < Len(last'.toks)
                  /\ pre.ok
                  /\ providers' = pre.m.prov
                  /\ count' = pre.m.count
                  /\ heap' = pre.m.heap
                  /\ last'.val = <<>>
                  /\ last'.tok = last'.toks[n + 1]
                  /\ last'.err = resolve(pre.m, i, <<last'.toks[n + 1]>>, MaxDepth).err]_vars

\* C34 witness: resolve("K", A) has failed on A, which is not bound, after
\* the singleton under "K" was constructed, and its cache holds the
\* instance.
C34_Witness ==
    /\ last.op = "resolve"
    /\ last.toks = <<"K", "A">>
    /\ ~last.ok
    /\ last.err = "UnresolvedToken"
    /\ last.tok = "A"
    /\ DOMAIN deps[last.inj] = {"K"}
    /\ Len(providers) = 1
    /\ providers[1].instance = Obj(1)
    /\ count["A"] = 1
    /\ Len(heap) = 1

---------------------------------------------------------------------------
(* Construction and the Global Injector.                                   *)

\* C35: new Injector() leaves the Global Injector set and locked: if none
\* was set, a root was created for it first, and the new Injector is its
\* child; if one was set it is kept.  Once locked the Global Injector stays
\* locked, and an assignment made while it is locked throws
\* GlobalInjectorAlreadySet and changes nothing.  new Injector(parent) with
\* null or an Injector, and spawn(), change neither the Global Injector
\* nor the lock.
C35_ConstructionReads ==
    /\ [](reads # {} => isReassigned)
    /\ [][/\ (last'.op = "new Injector" /\ last'.p = Omitted) =>
               /\ isReassigned'
               /\ globalInjector' \in reads'
               /\ IF globalInjector = Null
                  THEN /\ globalInjector' = Len(parent) + 1
                       /\ parent' = parent \o <<Null, globalInjector'>>
                       /\ deps' = deps \o <<<<>>, <<>>>>
                  ELSE /\ globalInjector' = globalInjector
                       /\ parent' = Append(parent, globalInjector)
          /\ isReassigned => isReassigned'
          /\ (last'.op = "GlobalInjectorSet" /\ isReassigned) =>
               /\ ~last'.ok
               /\ last'.err = "GlobalInjectorAlreadySet"
               /\ UNCHANGED <<globalInjector, isReassigned, parent, deps>>
          /\ (last'.op = "spawn" \/ (last'.op = "new Injector" /\ last'.p # Omitted)) =>
               /\ UNCHANGED <<globalInjector, isReassigned, reads, assigned>>
               /\ Len(parent') = Len(parent) + 1]_vars

\* C35 witness: nothing was ever assigned; new Injector() has created the
\* Global Injector and its own child of it, and an assignment made
\* afterwards has thrown.
C35_Witness ==
    /\ last.op = "GlobalInjectorSet"
    /\ ~last.ok
    /\ last.err = "GlobalInjectorAlreadySet"
    /\ assigned = {}
    /\ reads = {1}
    /\ globalInjector = 1
    /\ parent = <<Null, 1>>

---------------------------------------------------------------------------
(* Property injection.                                                     *)

\* C36: the Inject decorator of a property resolves its token on its
\* Injector when the class is defined: it fails there, and defines nothing,
\* when the token is bound nowhere on the Injector's chain or no token can
\* be found; otherwise it defines the property on the prototype with the
\* first element of what resolve returned, leaving what that resolve
\* leaves.  No later step, bind and resolve included, changes a defined
\* property, and a read of the property on an instance returns the value
\* defined, runs no Provider and builds nothing.
C36_ResolvedOnce ==
    [][/\ last'.op = "Inject" =>
            LET key == last'.target
                i == last'.inj
            IN  /\ ~properties[key].defined
                /\ \A k \in PropertyKeys \ {key} : properties'[k] = properties[k]
                /\ (last'.toks = <<>> \/ i \notin Injectors) =>
                        (~last'.ok /\ properties' = properties)
                /\ (last'.toks # <<>> /\ i \in Injectors) =>
                        LET r == resolve(Cur, i, last'.toks, MaxDepth)
                        IN  /\ last'.ok = r.ok
                            /\ (Owner(i, last'.toks[1]) = Null) =>
                                    (~last'.ok /\ last'.err = "UnresolvedToken")
                            /\ r.ok => /\ properties'[key].defined
                                       /\ properties'[key].value = r.val[1]
                            /\ ~r.ok => properties' = properties
                            /\ providers' = r.m.prov
                            /\ count' = r.m.count
                            /\ heap' = r.m.heap
       /\ last'.op # "Inject" => properties' = properties
       /\ last'.op = "property" =>
            LET P == properties[last'.target]
            IN  /\ last'.ok
                /\ last'.val = <<IF P.defined THEN P.value ELSE Undefined>>
                /\ UNCHANGED <<parent, deps, providers, count, heap>>]_vars

\* C36 witness: dep was defined on an Injector that found the class A, bound
\* bare and so not as a singleton, on its parent; afterwards a resolve of A
\* built a second object and the Injector itself bound A to a constant;
\* an instance still reads what the decorator stored.
C36_Witness ==
    /\ last.op = "property"
    /\ last.target = "dep"
    /\ properties["dep"].defined
    /\ last.val = <<properties["dep"].value>>
    /\ Len(heap) = 2
    /\ LET i == properties["dep"].injector
       IN  /\ parent[i] # Null
           /\ "A" \in DOMAIN deps[i]
           /\ providers[deps[i]["A"]].kind = "object"
           /\ providers[deps[i]["A"]].obj # last.val[1]
           /\ "A" \in DOMAIN deps[parent[i]]
           /\ ~providers[deps[parent[i]]["A"]].isSingleton

=============================================================================
